---- MODULE Spec2Model ----
(***************************************************************************)
(* Model of CrosswordCreator (generate.py): the crossword CSP solver.      *)
(* solve() = enforce_node_consistency(); ac3(); backtrack(dict()).         *)
(*                                                                         *)
(* A variable is an identifier v; its length is crossword.length[v].       *)
(* A word is a sequence of letters; Python's 0-based word[i] is Letter.    *)
(* A dict is a function; a Python list is a sequence (pop() takes the      *)
(* last element). Python sets iterate in an order the program does not     *)
(* control: var_order and nbr_order hold the order of one execution, and   *)
(* every order is considered.                                              *)
(*                                                                         *)
(* Spec runs solve() step by step; pc is the position:                     *)
(*   "solve"     before line 92                                            *)
(*   "ac3"       ac3() entered, "ac3_loop" at the test of the while loop   *)
(*   "backtrack" a call of backtrack(assignment) starts                    *)
(*   "loop"      at the head of the for loop of the innermost call         *)
(*   "return"    a call of backtrack has returned `result`                 *)
(*   "done"      solve() has returned `result`                             *)
(* SpecFn calls single methods on inputs drawn from bounded sets.          *)
(*                                                                         *)
(* Puzzles: up to three slots of length 2 or 3, ACROSS and DOWN slots      *)
(* crossing at one of their first two cells, vocabularies of up to         *)
(* MaxWords words of WordPool.                                             *)
(***************************************************************************)
EXTENDS Naturals, Integers, Sequences, FiniteSets, TLC

\* ------------------------------------------------------------------ bounds
\* Largest number of words of a vocabulary.
MaxWords == 3

\* The slots of the largest puzzle; a puzzle has the slots 1..n, n <= 3.
Slots == {1, 2, 3}

\* The words vocabularies are drawn from (lengths 2 and 3, letters A and B).
WordPool ==
    { <<"A","B">>, <<"B","A">>, <<"B","B">>, <<"A","A","A">> }

\* The lengths a slot may have.
Lengths == {2, 3}

\* The vocabulary of the puzzles on which single methods are called.
FnWords == { <<"A","B">>, <<"B","A">> }

\* The vocabulary of the puzzles whose domain stores are drawn freely.
StoreWords == { <<"A","B">>, <<"B","A">>, <<"B","B">> }

\* The positions of a slot at which another slot may cross it.
Indexes == {0, 1}

\* overlaps[x, y] of two slots that do not cross (Python's None).
NoOverlap == <<>>

\* Return values of backtrack: None, or the assignment dict.
NoneResult == [none |-> TRUE, value |-> <<>>]
Some(a) == [none |-> FALSE, value |-> a]

VARIABLES
    crossword,   \* the puzzle: [variables, length, overlaps, words]
    var_order,   \* iteration order of the set crossword.variables
    nbr_order,   \* nbr_order[x]: iteration order of the set neighbors(x)
    domains,     \* self.domains
    arcs,        \* the worklist of ac3 (a Python list)
    ac3_ret,     \* what ac3() returned: "none" (not yet), "True", "False"
    assignment,  \* the dict passed along backtrack
    stack,       \* the frames of the active backtrack calls: the local var,
                 \* the values the for loop has still to try, and (history)
                 \* the dict as it was when the call was entered
    result,      \* the value returned by the call that returned last
    ret,         \* the value returned by a method called on its own
    pc           \* position in solve()

vars == <<crossword, var_order, nbr_order, domains, arcs, ac3_ret,
          assignment, stack, result, ret, pc>>

\* ------------------------------------------------------------- helpers
Letter(word, i) == word[i + 1]

Range(s) == { s[i] : i \in DOMAIN s }

\* All orders in which a finite set can be iterated.
Perms(S) ==
    { s \in [1..Cardinality(S) -> S] : Range(s) = S }

\* The elements of S in the order the sequence rank lists them.
OrderBy(S, rank) ==
    LET idx == { i \in DOMAIN rank : rank[i] \in S }
        F[k \in 0..Len(rank)] ==
            IF k = 0 THEN <<>>
            ELSE IF rank[k] \in S THEN Append(F[k - 1], rank[k]) ELSE F[k - 1]
    IN F[Len(rank)]

\* crossword.neighbors(x): the variables that overlap x.
Neighbors(cw, x) ==
    { v \in cw.variables : v /= x /\ cw.overlaps[<<v, x>>] /= NoOverlap }

\* ------------------------------------------------------- puzzle structures
\* Slots with an odd identifier run ACROSS, the others DOWN; only slots of
\* different directions can cross.
MayCross(x, y) == (x % 2) /= (y % 2)

OverlapChoices(x, y) ==
    IF MayCross(x, y)
    THEN {NoOverlap} \cup { <<i, j>> : i \in Indexes, j \in Indexes }
    ELSE {NoOverlap}

\* Two slots crossing the same slot cross it at different cells.
DistinctCells(V, ov) ==
    \A x \in V, y \in V, z \in V :
        (y /= z /\ ov[<<x, y>>] /= NoOverlap /\ ov[<<x, z>>] /= NoOverlap)
            => ov[<<x, y>>][1] /= ov[<<x, z>>][1]

\* overlaps[x, y] = (i, j) iff overlaps[y, x] = (j, i).
OverlapMaps(V) ==
    LET Upper == { p \in V \X V : p[1] < p[2] }
        Flip(o) == IF o = NoOverlap THEN NoOverlap ELSE <<o[2], o[1]>>
        Half  == { h \in [Upper -> OverlapChoices(1, 2)] :
                       \A p \in Upper : h[p] \in OverlapChoices(p[1], p[2]) }
        Full(h) == [p \in V \X V |->
                      IF p[1] < p[2] THEN h[p]
                      ELSE IF p[1] > p[2] THEN Flip(h[<<p[2], p[1]>>])
                      ELSE NoOverlap]
    IN { ov \in { Full(h) : h \in Half } : DistinctCells(V, ov) }

Vocabularies ==
    { W \in SUBSET WordPool : Cardinality(W) <= MaxWords }

Crosswords ==
    UNION { { [variables |-> 1..n, length |-> len, overlaps |-> ov, words |-> W] :
                len \in [1..n -> Lengths], ov \in OverlapMaps(1..n), W \in Vocabularies } :
            n \in Slots }

NbrOrders(cw) ==
    { [x \in cw.variables |-> OrderBy(Neighbors(cw, x), r)] : r \in Perms(cw.variables) }

\* ------------------------------------------------------------------ Init
\* __init__ (every domain a copy of the vocabulary), before solve() runs.
Init ==
    /\ crossword \in Crosswords
    /\ var_order \in Perms(crossword.variables)
    /\ nbr_order \in NbrOrders(crossword)
    /\ domains = [v \in crossword.variables |-> crossword.words]
    /\ arcs = <<>>
    /\ ac3_ret = "none"
    /\ assignment = <<>>
    /\ stack = <<>>
    /\ result = NoneResult
    /\ ret = [fn |-> "none"]
    /\ pc = "solve"

\* ------------------------------------------------- enforce_node_consistency
\* enforce_node_consistency removing only the words that are too short.
NodeConsistentShorterOnly(cw, doms) ==
    [v \in cw.variables |-> { x \in doms[v] : ~ (Len(x) < cw.length[v]) }]

NodeConsistent(cw, doms) ==
    [v \in cw.variables |-> { x \in doms[v] : ~ (Len(x) /= cw.length[v]) }]

\* solve(), line 92: self.enforce_node_consistency()
EnforceNodeConsistency ==
    /\ pc = "solve"
    /\ domains' = NodeConsistent(crossword, domains)
    /\ pc' = "ac3"
    /\ UNCHANGED <<crossword, var_order, nbr_order, ret, arcs, ac3_ret,
                   assignment, stack, result>>

\* ------------------------------------------------------------------ revise
\* revise reading both letters at the position of x.
ReviseSameIndex(cw, doms, x, y) ==
    LET intersection_index == cw.overlaps[<<x, y>>]
        compatible_y_values ==
            { Letter(word_y, intersection_index[1]) : word_y \in doms[y] }
    IN [doms EXCEPT ![x] =
            { word_x \in doms[x] :
                Letter(word_x, intersection_index[1]) \in compatible_y_values }]

\* revise taking the letters of y from the whole vocabulary.
ReviseAgainstVocabulary(cw, doms, x, y) ==
    LET intersection_index == cw.overlaps[<<x, y>>]
        compatible_y_values ==
            { Letter(word_y, intersection_index[2]) : word_y \in cw.words }
    IN [doms EXCEPT ![x] =
            { word_x \in doms[x] :
                Letter(word_x, intersection_index[1]) \in compatible_y_values }]

\* revise rebuilding the domain of x from the vocabulary.
ReviseFromVocabulary(cw, doms, x, y) ==
    LET intersection_index == cw.overlaps[<<x, y>>]
        compatible_y_values ==
            { Letter(word_y, intersection_index[2]) : word_y \in doms[y] }
    IN [doms EXCEPT ![x] =
            { word_x \in cw.words :
                Letter(word_x, intersection_index[1]) \in compatible_y_values }]

\* The domains after revise(x, y): lines 120-131.
Revise(cw, doms, x, y) ==
    LET intersection_index == cw.overlaps[<<x, y>>]
        compatible_y_values ==
            { Letter(word_y, intersection_index[2]) : word_y \in doms[y] }
    IN [doms EXCEPT ![x] =
            { word_x \in doms[x] :
                Letter(word_x, intersection_index[1]) \in compatible_y_values }]

\* change_flag, the value revise(x, y) returns: lines 117, 130-134.
ReviseFlag(cw, doms, x, y) ==
    LET intersection_index == cw.overlaps[<<x, y>>]
        compatible_y_values ==
            { Letter(word_y, intersection_index[2]) : word_y \in doms[y] }
    IN \E word_x \in doms[x] :
           Letter(word_x, intersection_index[1]) \notin compatible_y_values

\* --------------------------------------------------------------------- ac3
\* The list of all arcs, as lines 147-151 build it.
AllArcs(cw, vo, no) ==
    LET ArcsOf(x) == [k \in 1..Len(no[x]) |-> <<x, no[x][k]>>]
        F[k \in 0..Len(vo)] ==
            IF k = 0 THEN <<>> ELSE F[k - 1] \o ArcsOf(vo[k])
    IN F[Len(vo)]

\* The arcs lines 162-165 append after revise(x, y) changed domains[x].
Requeue(no, x, y) ==
    LET others == SelectSeq(no[x], LAMBDA neighbor : neighbor /= y)
    IN [k \in 1..Len(others) |-> <<x, others[k]>>]

\* The iteration of the while loop appending the arcs whether or not revise
\* changed the domain.
Ac3IterAlwaysRequeue(cw, no, as, doms) ==
    LET current_arc == as[Len(as)]
        rest        == SubSeq(as, 1, Len(as) - 1)
        revised     == Revise(cw, doms, current_arc[1], current_arc[2])
    IN IF Cardinality(revised[current_arc[1]]) = 0
       THEN [arcs |-> rest, domains |-> revised, ret |-> "False"]
       ELSE [arcs |-> rest \o Requeue(no, current_arc[1], current_arc[2]),
             domains |-> revised, ret |-> "none"]

\* The iteration of the while loop returning False on a domain of at most
\* one word.
Ac3IterFalseOnSingleton(cw, no, as, doms) ==
    LET current_arc == as[Len(as)]
        rest        == SubSeq(as, 1, Len(as) - 1)
        revised     == Revise(cw, doms, current_arc[1], current_arc[2])
    IN IF ReviseFlag(cw, doms, current_arc[1], current_arc[2])
       THEN IF Cardinality(revised[current_arc[1]]) <= 1
            THEN [arcs |-> rest, domains |-> revised, ret |-> "False"]
            ELSE [arcs |-> rest \o Requeue(no, current_arc[1], current_arc[2]),
                  domains |-> revised, ret |-> "none"]
       ELSE [arcs |-> rest, domains |-> revised, ret |-> "none"]

\* One iteration of the while loop (lines 154-165) on a non-empty list.
Ac3Iter(cw, no, as, doms) ==
    LET current_arc == as[Len(as)]
        rest        == SubSeq(as, 1, Len(as) - 1)
        revised     == Revise(cw, doms, current_arc[1], current_arc[2])
    IN IF ReviseFlag(cw, doms, current_arc[1], current_arc[2])
       THEN IF Cardinality(revised[current_arc[1]]) = 0
            THEN [arcs |-> rest, domains |-> revised, ret |-> "False"]
            ELSE [arcs |-> rest \o Requeue(no, current_arc[1], current_arc[2]),
                  domains |-> revised, ret |-> "none"]
       ELSE [arcs |-> rest, domains |-> revised, ret |-> "none"]

\* The whole while loop: what ac3 returns and the domains it leaves.
RECURSIVE Ac3Run(_, _, _, _)
Ac3Run(cw, no, as, doms) ==
    IF as = <<>>
    THEN [ret |-> "True", domains |-> doms]
    ELSE LET it == Ac3Iter(cw, no, as, doms)
         IN IF it.ret = "False"
            THEN [ret |-> "False", domains |-> it.domains]
            ELSE Ac3Run(cw, no, it.arcs, it.domains)

\* solve(), line 93: self.ac3() with arcs=None.
Ac3Begin ==
    /\ pc = "ac3"
    /\ arcs' = AllArcs(crossword, var_order, nbr_order)
    /\ pc' = "ac3_loop"
    /\ UNCHANGED <<crossword, var_order, nbr_order, ret, domains, ac3_ret,
                   assignment, stack, result>>

Ac3Step ==
    /\ pc = "ac3_loop"
    /\ arcs /= <<>>
    /\ LET it == Ac3Iter(crossword, nbr_order, arcs, domains)
       IN /\ arcs' = it.arcs
          /\ domains' = it.domains
          /\ ac3_ret' = it.ret
          /\ pc' = IF it.ret = "False" THEN "backtrack" ELSE "ac3_loop"
    /\ UNCHANGED <<crossword, var_order, nbr_order, ret, assignment, stack, result>>

\* Line 166: the list is empty, return True; solve() goes on to line 94.
Ac3Exit ==
    /\ pc = "ac3_loop"
    /\ arcs = <<>>
    /\ ac3_ret' = "True"
    /\ pc' = "backtrack"
    /\ UNCHANGED <<crossword, var_order, nbr_order, ret, domains, arcs,
                   assignment, stack, result>>

\* ----------------------------------------------------- assignment_complete
\* Lines 174-178: every variable is a key of the dict and has a non-empty word.
AssignmentComplete(cw, a) ==
    \A variable \in cw.variables :
        ~ (variable \notin DOMAIN a \/ ~ (Len(a[variable]) > 0))

\* -------------------------------------------------------------- consistent
\* consistent without the check of distinct values (lines 188-189).
ConsistentNoDistinct(cw, a) ==
    IF \E variable \in cw.variables :
           variable \in DOMAIN a /\ Len(a[variable]) /= cw.length[variable]
    THEN FALSE
    ELSE IF \E variable \in DOMAIN a :
               \E neighbor \in Neighbors(cw, variable) :
                   LET intersection_index == cw.overlaps[<<variable, neighbor>>]
                   IN /\ neighbor \in DOMAIN a
                      /\ Letter(a[variable], intersection_index[1])
                            /= Letter(a[neighbor], intersection_index[2])
    THEN FALSE
    ELSE TRUE

\* consistent without the check of the lengths (lines 192-195).
ConsistentNoLength(cw, a) ==
    IF Cardinality({ a[v] : v \in DOMAIN a }) /= Cardinality(DOMAIN a)
    THEN FALSE
    ELSE IF \E variable \in DOMAIN a :
               \E neighbor \in Neighbors(cw, variable) :
                   LET intersection_index == cw.overlaps[<<variable, neighbor>>]
                   IN /\ neighbor \in DOMAIN a
                      /\ Letter(a[variable], intersection_index[1])
                            /= Letter(a[neighbor], intersection_index[2])
    THEN FALSE
    ELSE TRUE

\* consistent without the check of the overlaps (lines 198-205).
ConsistentNoOverlap(cw, a) ==
    IF Cardinality({ a[v] : v \in DOMAIN a }) /= Cardinality(DOMAIN a)
    THEN FALSE
    ELSE IF \E variable \in cw.variables :
               variable \in DOMAIN a /\ Len(a[variable]) /= cw.length[variable]
    THEN FALSE
    ELSE TRUE

\* Lines 188-207, check by check in the order of the code.
Consistent(cw, a) ==
    IF Cardinality({ a[v] : v \in DOMAIN a }) /= Cardinality(DOMAIN a)
    THEN FALSE
    ELSE IF \E variable \in cw.variables :
               variable \in DOMAIN a /\ Len(a[variable]) /= cw.length[variable]
    THEN FALSE
    ELSE IF \E variable \in DOMAIN a :
               \E neighbor \in Neighbors(cw, variable) :
                   LET intersection_index == cw.overlaps[<<variable, neighbor>>]
                   IN /\ neighbor \in DOMAIN a
                      /\ Letter(a[variable], intersection_index[1])
                            /= Letter(a[neighbor], intersection_index[2])
    THEN FALSE
    ELSE TRUE

\* ------------------------------------------------------------------ sorted
\* sorted(seq, key=...): the stable ascending sort of seq by key[element].
StableSort(seq, key) ==
    LET n == Len(seq)
        Pos(i) == 1 + Cardinality({ j \in 1..n :
                        \/ key[seq[j]] < key[seq[i]]
                        \/ (key[seq[j]] = key[seq[i]] /\ j < i) })
    IN [p \in 1..n |-> seq[CHOOSE i \in 1..n : Pos(i) = p]]

\* sorted(seq, key=..., reverse=True): descending, equal keys keep their order.
StableSortReverse(seq, key) ==
    StableSort(seq, [e \in DOMAIN key |-> 0 - key[e]])

\* ------------------------------------------------------ order_domain_values
\* The elimination count with the assigned neighbors counted too.
EliminationCountAllNeighbors(cw, doms, var, a, domain) ==
    LET neighbors == Neighbors(cw, var)
        Conflicts(neighbor) ==
            LET intersection_index == cw.overlaps[<<var, neighbor>>]
            IN Cardinality({ neighbor_domain \in doms[neighbor] :
                   Letter(domain, intersection_index[1])
                       /= Letter(neighbor_domain, intersection_index[2]) })
        Sum[S \in SUBSET neighbors] ==
            IF S = {} THEN 0
            ELSE LET n == CHOOSE n \in S : TRUE
                 IN Conflicts(n) + Sum[S \ {n}]
    IN Sum[neighbors]

\* Lines 219-234: the elimination count of each word of domains[var].
EliminationCount(cw, doms, var, a, domain) ==
    LET neighbors == { n \in Neighbors(cw, var) : n \notin DOMAIN a }
        Conflicts(neighbor) ==
            LET intersection_index == cw.overlaps[<<var, neighbor>>]
            IN Cardinality({ neighbor_domain \in doms[neighbor] :
                   Letter(domain, intersection_index[1])
                       /= Letter(neighbor_domain, intersection_index[2]) })
        Sum[S \in SUBSET neighbors] ==
            IF S = {} THEN 0
            ELSE LET n == CHOOSE n \in S : TRUE
                 IN Conflicts(n) + Sum[S \ {n}]
    IN Sum[neighbors]

\* Lines 236-237; iter is the order in which the set domains[var] iterates.
OrderDomainValues(cw, doms, var, a, iter) ==
    StableSort(iter, [domain \in doms[var] |->
                          EliminationCount(cw, doms, var, a, domain)])

\* ------------------------------------------------ select_unassigned_variable
\* select_unassigned_variable with the degree sort not reversed.
SelectLowestDegree(cw, vo, doms, a) ==
    LET unassigned == SelectSeq(vo, LAMBDA variable : variable \notin DOMAIN a)
        degree == [v \in cw.variables |-> Cardinality(Neighbors(cw, v))]
        domain == [v \in cw.variables |-> Cardinality(doms[v])]
        highest_degree   == StableSort(unassigned, degree)
        remaining_values == StableSort(highest_degree, domain)
    IN remaining_values[1]

\* Lines 249-266: two stable sorts, by degree descending, then by domain size.
SelectUnassignedVariable(cw, vo, doms, a) ==
    LET unassigned == SelectSeq(vo, LAMBDA variable : variable \notin DOMAIN a)
        degree == [v \in cw.variables |-> Cardinality(Neighbors(cw, v))]
        domain == [v \in cw.variables |-> Cardinality(doms[v])]
        highest_degree   == StableSortReverse(unassigned, degree)
        remaining_values == StableSort(highest_degree, domain)
    IN remaining_values[1]

\* --------------------------------------------------------------- backtrack
Top == stack[Len(stack)]
Pop == SubSeq(stack, 1, Len(stack) - 1)

\* Python's truth value of what backtrack returned (line 289).
Truthy(r) == ~ r.none /\ DOMAIN r.value /= {}

\* A call of backtrack(assignment) starts: lines 278-285.
BacktrackEnter ==
    /\ pc = "backtrack"
    /\ IF AssignmentComplete(crossword, assignment)
       THEN /\ result' = Some(assignment)
            /\ pc' = "return"
            /\ UNCHANGED stack
       ELSE LET var == SelectUnassignedVariable(crossword, var_order, domains, assignment)
            IN \E iter \in Perms(domains[var]) :
                 /\ stack' = Append(stack,
                       [var |-> var,
                        values |-> OrderDomainValues(crossword, domains, var, assignment, iter),
                        entry |-> assignment])
                 /\ pc' = "loop"
                 /\ UNCHANGED result
    /\ UNCHANGED <<crossword, var_order, nbr_order, ret, domains, arcs, ac3_ret, assignment>>

\* The pass of the for loop with an inference step that narrows the domain
\* of var to the value tried.
BacktrackTryNarrows ==
    /\ pc = "loop"
    /\ Top.values /= <<>>
    /\ LET var   == Top.var
           value == Head(Top.values)
           tried == (var :> value) @@ assignment
       IN /\ stack' = [stack EXCEPT ![Len(stack)].values = Tail(Top.values)]
          /\ IF Consistent(crossword, tried)
             THEN /\ assignment' = tried
                  /\ domains' = [domains EXCEPT ![var] = {value}]
                  /\ pc' = "backtrack"
             ELSE /\ assignment' = assignment
                  /\ domains' = domains
                  /\ pc' = "loop"
    /\ UNCHANGED <<crossword, var_order, nbr_order, ret, arcs, ac3_ret, result>>

\* One pass of the for loop up to the recursive call: lines 285-288, 292-293.
BacktrackTry ==
    /\ pc = "loop"
    /\ Top.values /= <<>>
    /\ LET var   == Top.var
           value == Head(Top.values)
           tried == (var :> value) @@ assignment
       IN /\ stack' = [stack EXCEPT ![Len(stack)].values = Tail(Top.values)]
          /\ IF Consistent(crossword, tried)
             THEN /\ assignment' = tried
                  /\ pc' = "backtrack"
             ELSE /\ assignment' = assignment
                  /\ pc' = "loop"
    /\ UNCHANGED <<crossword, var_order, nbr_order, ret, domains, arcs, ac3_ret, result>>

\* The for loop is exhausted: line 294, return None.
BacktrackExhausted ==
    /\ pc = "loop"
    /\ Top.values = <<>>
    /\ stack' = Pop
    /\ result' = NoneResult
    /\ pc' = "return"
    /\ UNCHANGED <<crossword, var_order, nbr_order, ret, domains, arcs, ac3_ret, assignment>>

\* The return of the recursive call without the del of line 291.
BacktrackReturnNoDelete ==
    /\ pc = "return"
    /\ stack /= <<>>
    /\ IF Truthy(result)
       THEN /\ stack' = Pop
            /\ pc' = "return"
            /\ UNCHANGED assignment
       ELSE /\ assignment' = assignment
            /\ pc' = "loop"
            /\ UNCHANGED stack
    /\ UNCHANGED <<crossword, var_order, nbr_order, ret, domains, arcs, ac3_ret, result>>

\* The recursive call of line 288 returned to its caller: lines 289-291.
BacktrackReturn ==
    /\ pc = "return"
    /\ stack /= <<>>
    /\ IF Truthy(result)
       THEN /\ stack' = Pop
            /\ pc' = "return"
            /\ UNCHANGED assignment
       ELSE /\ assignment' = [v \in DOMAIN assignment \ {Top.var} |-> assignment[v]]
            /\ pc' = "loop"
            /\ UNCHANGED stack
    /\ UNCHANGED <<crossword, var_order, nbr_order, ret, domains, arcs, ac3_ret, result>>

\* The call of line 94 returned: solve() returns its result.
SolveReturn ==
    /\ pc = "return"
    /\ stack = <<>>
    /\ pc' = "done"
    /\ UNCHANGED <<crossword, var_order, nbr_order, ret, domains, arcs, ac3_ret,
                   assignment, stack, result>>

Next ==
    \/ EnforceNodeConsistency
    \/ Ac3Begin
    \/ Ac3Step
    \/ Ac3Exit
    \/ BacktrackEnter
    \/ BacktrackTry
    \/ BacktrackExhausted
    \/ BacktrackReturn
    \/ SolveReturn

Spec == Init /\ [][Next]_vars

\* ---------------------------------------------- solve() on malformed input
\* Puzzles with a slot of non-positive length (every overlap index of such a
\* slot is out of its bounds), over the whole word pool.
MalformedCrosswords ==
    UNION { { [variables |-> 1..n, length |-> len, overlaps |-> ov, words |-> WordPool] :
                len \in { l \in [1..n -> Lengths \cup {0}] : \E v \in 1..n : l[v] <= 0 },
                ov \in OverlapMaps(1..n) } :
            n \in Slots }

InitMalformed ==
    /\ crossword \in MalformedCrosswords
    /\ var_order \in Perms(crossword.variables)
    /\ nbr_order \in NbrOrders(crossword)
    /\ domains = [v \in crossword.variables |-> crossword.words]
    /\ arcs = <<>>
    /\ ac3_ret = "none"
    /\ assignment = <<>>
    /\ stack = <<>>
    /\ result = NoneResult
    /\ ret = [fn |-> "none"]
    /\ pc = "solve"

\* solve() on every puzzle, well-formed or not.
SpecInputs == (Init \/ InitMalformed) /\ [][Next]_vars

\* ------------------------------------------- single methods on drawn inputs
\* The dicts with keys K and values in W.
Assignments(Ks, W) == UNION { [K -> W] : K \in Ks }

Ascending(V) == [i \in 1..Cardinality(V) |-> i]

\* Inputs of consistent(assignment): any puzzle structure, any dict of words.
InitConsistent ==
    /\ crossword \in { cw \in Crosswords : cw.words = FnWords }
    /\ var_order = Ascending(crossword.variables)
    /\ nbr_order = [x \in crossword.variables |->
                        OrderBy(Neighbors(crossword, x), var_order)]
    /\ domains = [v \in crossword.variables |-> crossword.words]
    /\ assignment \in Assignments(SUBSET crossword.variables, WordPool)
    /\ pc = "call_consistent"

\* Inputs of select_unassigned_variable(assignment): any domains, any
\* iteration order, any dict that leaves a variable out.
InitSelect ==
    /\ crossword \in { cw \in Crosswords :
                          /\ cw.words = FnWords
                          /\ \A v \in cw.variables : cw.length[v] = 2 }
    /\ var_order \in Perms(crossword.variables)
    /\ nbr_order = [x \in crossword.variables |->
                        OrderBy(Neighbors(crossword, x), var_order)]
    /\ domains \in [crossword.variables -> SUBSET crossword.words]
    /\ assignment \in { [v \in K |-> w] :
                           K \in (SUBSET crossword.variables) \ {crossword.variables},
                           w \in crossword.words }
    /\ pc = "call_select"

\* Inputs of order_domain_values(var, assignment): slots of length 2, any
\* domain store over StoreWords, any set of assigned variables.
InitOrder ==
    /\ crossword \in { cw \in Crosswords :
                          /\ cw.words = StoreWords
                          /\ \A v \in cw.variables : cw.length[v] = 2 }
    /\ var_order = Ascending(crossword.variables)
    /\ nbr_order = [x \in crossword.variables |->
                        OrderBy(Neighbors(crossword, x), var_order)]
    /\ domains \in [crossword.variables -> SUBSET crossword.words]
    /\ assignment \in { [v \in K |-> <<"A","B">>] : K \in SUBSET crossword.variables }
    /\ pc = "call_order"

InitFn ==
    /\ InitConsistent \/ InitSelect
    /\ arcs = <<>>
    /\ ac3_ret = "none"
    /\ stack = <<>>
    /\ result = NoneResult
    /\ ret = [fn |-> "none"]

CallConsistent ==
    /\ pc = "call_consistent"
    /\ ret' = [fn |-> "consistent", value |-> Consistent(crossword, assignment)]
    /\ pc' = "returned"
    /\ UNCHANGED <<crossword, var_order, nbr_order, domains, arcs, ac3_ret,
                   assignment, stack, result>>

CallSelectUnassignedVariable ==
    /\ pc = "call_select"
    /\ ret' = [fn |-> "select_unassigned_variable",
               value |-> SelectUnassignedVariable(crossword, var_order, domains, assignment)]
    /\ pc' = "returned"
    /\ UNCHANGED <<crossword, var_order, nbr_order, domains, arcs, ac3_ret,
                   assignment, stack, result>>

\* order_domain_values(var, assignment), the set domains[var] iterating as iter.
CallOrderDomainValues ==
    /\ pc = "call_order"
    /\ \E var \in crossword.variables :
         \E iter \in Perms(domains[var]) :
            ret' = [fn |-> "order_domain_values", var |-> var,
                    value |-> OrderDomainValues(crossword, domains, var, assignment, iter)]
    /\ pc' = "returned"
    /\ UNCHANGED <<crossword, var_order, nbr_order, domains, arcs, ac3_ret,
                   assignment, stack, result>>

NextFn ==
    \/ CallConsistent
    \/ CallSelectUnassignedVariable

SpecFn == InitFn /\ [][NextFn]_vars

\* Inputs of revise(x, y): slots of length 2, any domain store over
\* StoreWords.
InitRevise ==
    /\ crossword \in { cw \in Crosswords :
                          /\ cw.words = StoreWords
                          /\ \A v \in cw.variables : cw.length[v] = 2 }
    /\ var_order = Ascending(crossword.variables)
    /\ nbr_order = [x \in crossword.variables |->
                        OrderBy(Neighbors(crossword, x), var_order)]
    /\ domains \in [crossword.variables -> SUBSET crossword.words]
    /\ assignment = <<>>
    /\ pc = "call_revise"

\* revise(x, y) for an arc (x, y); ret keeps the arguments, the domains
\* before the call and the value returned.
CallRevise ==
    /\ pc = "call_revise"
    /\ \E x \in crossword.variables : \E y \in Neighbors(crossword, x) :
          /\ domains' = Revise(crossword, domains, x, y)
          /\ ret' = [fn |-> "revise", x |-> x, y |-> y, before |-> domains,
                     value |-> ReviseFlag(crossword, domains, x, y)]
    /\ pc' = "returned"
    /\ UNCHANGED <<crossword, var_order, nbr_order, arcs, ac3_ret,
                   assignment, stack, result>>

\* Methods that read the domain store, called on freely drawn stores.
InitStore ==
    /\ InitRevise \/ InitOrder
    /\ arcs = <<>>
    /\ ac3_ret = "none"
    /\ stack = <<>>
    /\ result = NoneResult
    /\ ret = [fn |-> "none"]

NextStore ==
    \/ CallOrderDomainValues
    \/ CallRevise

SpecStore == InitStore /\ [][NextStore]_vars

\* ================================================================ properties
\* The positions of solve() inside the call of backtrack of line 94.
\* ------------------------------------------------- ac3 on a given arc list
\* The arcs of the puzzle, and the lists a caller can pass as arcs
\* (line 136): any arcs in any order.
ArcSet(cw) ==
    { p \in cw.variables \X cw.variables : p[2] \in Neighbors(cw, p[1]) }

ArcLists(cw) ==
    UNION { Perms(S) : S \in SUBSET ArcSet(cw) }

\* ac3(arcs) entered at the while loop (line 154) after node consistency.
InitAc3 ==
    /\ crossword \in Crosswords
    /\ var_order = Ascending(crossword.variables)
    /\ nbr_order \in NbrOrders(crossword)
    /\ domains = NodeConsistent(crossword, [v \in crossword.variables |-> crossword.words])
    /\ arcs \in ArcLists(crossword)
    /\ ac3_ret = "none"
    /\ assignment = <<>>
    /\ stack = <<>>
    /\ result = NoneResult
    /\ ret = [fn |-> "none"]
    /\ pc = "ac3_loop"

NextAc3 == Ac3Step \/ Ac3Exit

\* The while loop is sequential code: it keeps running while it can.
SpecAc3 == InitAc3 /\ [][NextAc3]_vars /\ WF_vars(NextAc3)

SearchPcs == {"backtrack", "loop", "return"}

\* Arc consistency of a domain store: every word of every domain has a
\* supporting word in the domain of every neighbor.
ArcConsistent(cw, doms) ==
    \A x \in cw.variables : \A y \in Neighbors(cw, x) : \A w \in doms[x] :
        \E w2 \in doms[y] :
            Letter(w2, cw.overlaps[<<x, y>>][2]) = Letter(w, cw.overlaps[<<x, y>>][1])

\* C1: whenever ac3() (default arcs, node-consistent domains) has returned
\* True, the domain store is arc consistent.
C1_Ac3SuccessIsArcConsistent ==
    ac3_ret = "True" => ArcConsistent(crossword, domains)

\* C2: backtrack is invoked only when ac3 reported success; after a failure
\* of ac3 the search is never started.
C2_SearchOnlyAfterAc3Success ==
    pc \in SearchPcs => ac3_ret = "True"

\* C5: ac3() returns True exactly when no domain is empty at its return
\* (the domains do not change after ac3 has returned).
C5_Ac3TrueIffNoEmptyDomain ==
    ac3_ret /= "none" =>
        (ac3_ret = "True" <=> \A v \in crossword.variables : domains[v] /= {})

\* The run of ac3 when the sets iterate in ascending order of the slots.
ReferenceAc3 ==
    LET vo == Ascending(crossword.variables)
        no == [x \in crossword.variables |-> OrderBy(Neighbors(crossword, x), vo)]
        start == NodeConsistent(crossword, [v \in crossword.variables |-> crossword.words])
    IN Ac3Run(crossword, no, AllArcs(crossword, vo, no), start)

\* C6: the outcome of ac3() does not depend on the order of the arc list:
\* every order gives the success/failure of the reference order, and on
\* success the same domains.
C6_Ac3OrderIndependent ==
    ac3_ret /= "none" =>
        /\ ac3_ret = ReferenceAc3.ret
        /\ ac3_ret = "True" => domains = ReferenceAc3.domains

\* C7: when node consistency leaves a variable with an empty domain, solve()
\* never invokes backtrack.
C7_EmptyNodeDomainSkipsSearch ==
    (\E v \in crossword.variables :
        NodeConsistent(crossword, [u \in crossword.variables |-> crossword.words])[v] = {})
      => pc \notin SearchPcs

\* What a solution of the puzzle is: distinct words, of the slots' lengths,
\* agreeing where slots cross.
PairwiseDistinct(a) ==
    \A u \in DOMAIN a, v \in DOMAIN a : u /= v => a[u] /= a[v]

LengthsFit(cw, a) ==
    \A v \in DOMAIN a : Len(a[v]) = cw.length[v]

OverlapsAgree(cw, a) ==
    \A u \in DOMAIN a, v \in DOMAIN a :
        (u /= v /\ cw.overlaps[<<u, v>>] /= NoOverlap) =>
            Letter(a[u], cw.overlaps[<<u, v>>][1]) = Letter(a[v], cw.overlaps[<<u, v>>][2])

Solutions(cw) ==
    { a \in [cw.variables -> cw.words] :
        PairwiseDistinct(a) /\ LengthsFit(cw, a) /\ OverlapsAgree(cw, a) }

NodeDomains == NodeConsistent(crossword, [v \in crossword.variables |-> crossword.words])

\* C3: every assignment solve() returns maps every variable to a word, with
\* all words distinct, of the right length and agreeing at the overlaps.
C3_SearchSound ==
    (pc = "done" /\ ~ result.none) =>
        /\ DOMAIN result.value = crossword.variables
        /\ PairwiseDistinct(result.value)
        /\ LengthsFit(crossword, result.value)
        /\ OverlapsAgree(crossword, result.value)

\* solve() returned an assignment for a puzzle of three slots, two crossings.
C3_Witness ==
    /\ pc = "done"
    /\ ~ result.none
    /\ Cardinality(crossword.variables) = 3
    /\ Cardinality(Neighbors(crossword, 2)) = 2

\* C4: solve() returns no-solution only if the puzzle has no solution.
C4_SearchComplete ==
    pc = "done" => (Solutions(crossword) /= {} => ~ result.none)

\* solve() returned an assignment for a solvable puzzle in which ac3 removed
\* a word and the search had to give up a value.
C4_Witness ==
    /\ pc = "done"
    /\ Solutions(crossword) /= {}
    /\ ~ result.none
    /\ domains /= NodeDomains
    /\ \E v \in crossword.variables :
          result.value[v] /= CHOOSE w \in domains[v] : TRUE

\* C8: after enforce_node_consistency() the domain of v is exactly the set
\* of vocabulary words of length v.length.
C8_NodeConsistencyExact ==
    pc = "ac3" =>
        \A v \in crossword.variables :
            domains[v] = { w \in crossword.words : Len(w) = crossword.length[v] }

\* Node consistency removed a shorter and a longer word and kept one.
C8_Witness ==
    /\ pc = "ac3"
    /\ \E u \in crossword.variables, v \in crossword.variables :
          /\ \E w \in crossword.words \ domains[u] : Len(w) > crossword.length[u]
          /\ \E w \in crossword.words \ domains[v] : Len(w) < crossword.length[v]
          /\ domains[u] /= {}

\* C9: consistent(assignment) is true iff the assigned words are pairwise
\* distinct, fit their slots and agree at the overlaps of assigned neighbors.
C9_ConsistentIff ==
    ret.fn = "consistent" =>
        (ret.value <=> /\ PairwiseDistinct(assignment)
                       /\ LengthsFit(crossword, assignment)
                       /\ OverlapsAgree(crossword, assignment))

\* consistent returned True for a partial assignment with an unassigned
\* neighbor of an assigned variable.
C9_Witness ==
    /\ ret.fn = "consistent"
    /\ ret.value
    /\ \E u \in DOMAIN assignment, v \in DOMAIN assignment : v \in Neighbors(crossword, u)
    /\ \E u \in DOMAIN assignment :
          \E v \in Neighbors(crossword, u) : v \notin DOMAIN assignment

\* C10: select_unassigned_variable returns an unassigned variable of minimal
\* domain size and, among those, of maximal degree.
C10_SelectMrvThenDegree ==
    ret.fn = "select_unassigned_variable" =>
        LET v == ret.value
            Unassigned == crossword.variables \ DOMAIN assignment
            Degree(u) == Cardinality(Neighbors(crossword, u))
        IN /\ v \in Unassigned
           /\ \A u \in Unassigned :
                /\ Cardinality(domains[u]) >= Cardinality(domains[v])
                /\ Cardinality(domains[u]) = Cardinality(domains[v]) => Degree(u) <= Degree(v)

\* The degree decided: a variable earlier in the iteration order has the
\* same domain size and fewer neighbors; another has a larger domain.
C10_Witness ==
    /\ ret.fn = "select_unassigned_variable"
    /\ \E u \in crossword.variables \ DOMAIN assignment :
          /\ Cardinality(domains[u]) = Cardinality(domains[ret.value])
          /\ Cardinality(Neighbors(crossword, u)) < Cardinality(Neighbors(crossword, ret.value))
          /\ \E i, j \in DOMAIN var_order :
                i < j /\ var_order[i] = u /\ var_order[j] = ret.value
    /\ \E u \in crossword.variables \ DOMAIN assignment :
          Cardinality(domains[u]) > Cardinality(domains[ret.value])

\* The words the value v rules out for the unassigned neighbors of var: the
\* pairs (neighbor, word of its domain) that differ from v at the overlap.
RuledOut(cw, doms, var, a, v) ==
    { p \in UNION { {n} \X doms[n] : n \in Neighbors(cw, var) \ DOMAIN a } :
        Letter(v, cw.overlaps[<<var, p[1]>>][1])
            /= Letter(p[2], cw.overlaps[<<var, p[1]>>][2]) }

\* C11: order_domain_values(var, assignment) lists every word of domain(var)
\* exactly once and nothing else, in non-decreasing order of the number of
\* words ruled out for the unassigned neighbors.
C11_OrderDomainValues ==
    ret.fn = "order_domain_values" =>
        LET out == ret.value
            Count(v) == Cardinality(RuledOut(crossword, domains, ret.var, assignment, v))
        IN /\ Range(out) = domains[ret.var]
           /\ Len(out) = Cardinality(domains[ret.var])
           /\ \A i \in DOMAIN out, j \in DOMAIN out :
                 i < j => Count(out[i]) <= Count(out[j])

\* Three words were ordered, the counts decided the order, and an assigned
\* neighbor with conflicting words was left out of the counts.
C11_Witness ==
    /\ ret.fn = "order_domain_values"
    /\ Len(ret.value) = 3
    /\ Cardinality(RuledOut(crossword, domains, ret.var, assignment, ret.value[1]))
         < Cardinality(RuledOut(crossword, domains, ret.var, assignment, ret.value[3]))
    /\ \E n \in Neighbors(crossword, ret.var) \ DOMAIN assignment : TRUE
    /\ \E n \in Neighbors(crossword, ret.var) \cap DOMAIN assignment :
          \E u \in domains[n] :
              Letter(ret.value[1], crossword.overlaps[<<ret.var, n>>][1])
                  /= Letter(u, crossword.overlaps[<<ret.var, n>>][2])

\* A puzzle that violates the preconditions: a slot of non-positive length,
\* or an overlap index outside the slot it refers to.
Malformed(cw) ==
    \/ \E v \in cw.variables : cw.length[v] <= 0
    \/ \E x \in cw.variables, y \in cw.variables :
          /\ cw.overlaps[<<x, y>>] /= NoOverlap
          /\ \/ cw.overlaps[<<x, y>>][1] \notin 0..(cw.length[x] - 1)
             \/ cw.overlaps[<<x, y>>][2] \notin 0..(cw.length[y] - 1)

\* C12: on malformed input solve() never returns normally, neither with
\* no-solution nor with an assignment (it reports a failure of its own).
C12_MalformedInputRejected ==
    Malformed(crossword) => pc /= "done"

\* The arcs a step of the ac3 loop put on the worklist.
Appended == SubSeq(arcs', Len(arcs), Len(arcs'))

\* C13: when revise(x, y) removed a word and left domain(x) non-empty, the
\* arcs appended are exactly the arcs (z, x) into x, one for each neighbor z
\* of x other than y.
C13_RequeueArcsIntoX ==
    [][ (pc = "ac3_loop" /\ arcs /= <<>> /\ domains' /= domains
           /\ domains'[arcs[Len(arcs)][1]] /= {})
        => LET x == arcs[Len(arcs)][1]
               y == arcs[Len(arcs)][2]
           IN /\ Range(Appended) = { <<z, x>> : z \in Neighbors(crossword, x) \ {y} }
              /\ Len(Appended) = Cardinality(Neighbors(crossword, x) \ {y}) ]_vars

\* w in domain(x) has a word of domain(y) with the same letter at the overlap.
Supported(cw, doms, x, y, w) ==
    \E w2 \in doms[y] :
        Letter(w2, cw.overlaps[<<x, y>>][2]) = Letter(w, cw.overlaps[<<x, y>>][1])

\* C14: revise(x, y) removes from domain(x) exactly the words without
\* support in domain(y), returns True iff it removed a word, and leaves
\* every other domain as it was.
C14_ReviseExact ==
    ret.fn = "revise" =>
        /\ domains[ret.x] =
              { w \in ret.before[ret.x] : Supported(crossword, ret.before, ret.x, ret.y, w) }
        /\ ret.value <=> (ret.before[ret.x] \ domains[ret.x] /= {})
        /\ \A v \in crossword.variables \ {ret.x} : domains[v] = ret.before[v]

\* revise removed one word of three and kept two; revise returned True.
C14_Witness ==
    /\ ret.fn = "revise"
    /\ ret.value
    /\ Cardinality(ret.before[ret.x]) = 3
    /\ Cardinality(domains[ret.x]) = 2
    /\ domains[ret.y] /= crossword.words

\* C15: a call of backtrack that returns None (line 294) leaves the dict
\* with exactly the entries it had when the call was entered; a failure of
\* the call made by solve() leaves the dict empty.
C15_UndoOnFailure ==
    /\ [][ (pc = "loop" /\ Top.values = <<>>)
             => (result'.none /\ assignment' = Top.entry) ]_vars
    /\ [] ((pc = "done" /\ result.none) => assignment = <<>>)

\* The search ran on non-empty domains of three crossing slots, tried
\* values, descended and failed: solve() returned None.
C15_Witness ==
    /\ pc = "done"
    /\ result.none
    /\ ac3_ret = "True"
    /\ Cardinality(crossword.variables) = 3
    /\ Cardinality(Neighbors(crossword, 2)) = 2
    /\ \A v \in crossword.variables : domains[v] /= {}

\* C16: at the entry of every call of backtrack made from solve(), the dict
\* has distinct words of the right lengths that agree at the overlaps, every
\* word is in the domain of its variable, the keys are puzzle variables
\* mapped to vocabulary words, and the number of keys is the recursion depth,
\* at most the number of variables.
C16_EntryInvariant ==
    pc = "backtrack" =>
        /\ PairwiseDistinct(assignment)
        /\ LengthsFit(crossword, assignment)
        /\ OverlapsAgree(crossword, assignment)
        /\ DOMAIN assignment \subseteq crossword.variables
        /\ \A v \in DOMAIN assignment :
               assignment[v] \in domains[v] /\ assignment[v] \in crossword.words
        /\ Cardinality(DOMAIN assignment) = Len(stack)
        /\ Len(stack) <= Cardinality(crossword.variables)

\* A call entered at depth two, with two crossing slots assigned and a
\* third slot still to assign.
C16_Witness ==
    /\ pc = "backtrack"
    /\ Len(stack) = 2
    /\ Cardinality(crossword.variables) = 3
    /\ \E u \in DOMAIN assignment, v \in DOMAIN assignment : v \in Neighbors(crossword, u)

\* C17: every step of solve() leaves each domain a subset of what it was
\* before the step, and every domain is always a subset of the vocabulary.
C17_DomainsShrink ==
    /\ [][ /\ DOMAIN domains' = DOMAIN domains
           /\ \A v \in DOMAIN domains : domains'[v] \subseteq domains[v] ]_vars
    /\ [] (\A v \in DOMAIN domains : domains[v] \subseteq crossword.words)

\* The search runs on a domain that node consistency and then revise have
\* both made strictly smaller.
C17_Witness ==
    /\ pc \in SearchPcs
    /\ \E v \in crossword.variables :
          /\ NodeDomains[v] /= crossword.words
          /\ domains[v] /= NodeDomains[v]
          /\ domains[v] \subseteq NodeDomains[v]

\* C18: from the first call of backtrack until solve() returns, no step
\* changes the domain of any variable, whether the search succeeds or fails.
C18_SearchKeepsDomains ==
    [][ (pc \in SearchPcs) => domains' = domains ]_vars

\* The search descended to depth two and came back with a failure, on
\* domains that all hold more than one word.
C18_Witness ==
    /\ pc = "return"
    /\ result.none
    /\ Len(stack) = 2
    /\ \A v \in crossword.variables : Cardinality(domains[v]) >= 2

\* C19: ac3 terminates: the loop eventually returns, with True on an empty
\* list or with False on an emptied domain, and a step of the loop appends
\* arcs only when it made a domain strictly smaller.
C19_Ac3Terminates ==
    /\ <> (pc = "backtrack" /\ ac3_ret \in {"True", "False"})
    /\ [] (pc = "backtrack" =>
              \/ ac3_ret = "True" /\ arcs = <<>>
              \/ ac3_ret = "False" /\ \E v \in crossword.variables : domains[v] = {})
    /\ [][ (pc = "ac3_loop" /\ arcs /= <<>> /\ Len(arcs') >= Len(arcs)) =>
              \E v \in crossword.variables :
                  domains'[v] \subseteq domains[v] /\ domains'[v] /= domains[v] ]_vars

\* ac3 returned True after revise narrowed the domain of a slot with two
\* neighbors, so arcs were appended on the way.
C19_Witness ==
    /\ pc = "backtrack"
    /\ ac3_ret = "True"
    /\ arcs = <<>>
    /\ Cardinality(crossword.variables) = 3
    /\ Cardinality(Neighbors(crossword, 2)) = 2
    /\ domains[2] /= NodeDomains[2]
    /\ domains[2] /= {}

\* C20: whenever ac3 returned False, the search solve() still runs returns
\* None, as a solve() that stopped on the False of ac3 would.
C20_Ac3FailureMeansNone ==
    (pc = "done" /\ ac3_ret = "False") => result.none

\* solve() returned None after ac3 returned False on a puzzle of three
\* slots in which only one domain was emptied.
C20_Witness ==
    /\ pc = "done"
    /\ ac3_ret = "False"
    /\ result.none
    /\ Cardinality(crossword.variables) = 3
    /\ Cardinality({ v \in crossword.variables : domains[v] = {} }) = 1

====
